---- MODULE Spec2Model ----
(***************************************************************************)
(* Model of src/src/services/agentService.ts: the PCFAuth session          *)
(* authenticator (token cache, silent-then-interactive acquisition) and    *)
(* the AgentClient conversation client (sendMessage,                       *)
(* resetConversationContext, validateConfig).                              *)
(*                                                                         *)
(* Every `await` of the source is a point where a call is suspended; one   *)
(* action of the model runs a call from one suspension point to the next.  *)
(* The identity provider (MSAL) and the agent transport (Copilot Studio    *)
(* client) are external: their results and failures are drawn from small   *)
(* sets.                                                                   *)
(***************************************************************************)
EXTENDS Integers, Sequences, FiniteSets, TLC

(* ------------------------------ bounds -------------------------------- *)
\* operations (sendMessage / resetConversationContext) begun on one client
MaxOps == 3
\* last instant of the wall clock
MaxTime == 1

(* ------------------------- JavaScript values --------------------------- *)
\* null / undefined in a string-typed slot
Null == "<null>"
\* null in a Date-typed slot; a Date is <<t>>
NoDate == <<>>
Date(t) == <<t>>

\* JavaScript truthiness of a string-or-null value
Truthy(s) == s /= Null /\ s /= ""

\* Values a rejected promise / throw statement can carry: an Error object,
\* a value that is not an Error (a string), or null/undefined.
JsError(m) == [kind |-> "Error", message |-> m]
JsString(s) == [kind |-> "string", message |-> s]
JsNullish == [kind |-> "nullish", message |-> ""]

\* What external collaborators throw.
Thrown == {JsError("network"), JsString("popup_blocked"), JsNullish}
\* what acquireTokenSilent rejects with (the value is dropped by the catch)
SilentThrown == {JsError("interaction_required")}

\* `${error.message}` in a template literal, for error not null/undefined:
\* the message of an Error; a string has no such property, which renders as
\* "undefined".
MessageProperty(error) ==
    IF error.kind = "Error" THEN error.message ELSE "undefined"

\* Reading error.message throws a TypeError when error is null/undefined.
MessageReadThrows(error) == error.kind = "nullish"
TypeErrorOnRead == JsError("Cannot read properties of undefined (reading 'message')")

\* Date.prototype.toISOString
toISOString(t) == "ISO:" \o ToString(t)

(* ---------------------------- configuration ---------------------------- *)
GoodGuid == "0a1b2c3d-4e5f-4a6b-8c7d-9e0f1a2b3c4d"
UpperGuid == "0A1B2C3D-4E5F-1A6B-BC7D-9E0F1A2B3C4D"
\* the README's example Client ID
ReadmeClientId == "12345678-1234-1234-1234-123456789012"
\* the README's example Tenant ID
ReadmeTenantId == "87654321-4321-4321-4321-210987654321"
NotAGuid == "my-client"

HexDigits == {"0", "1", "2", "3", "4", "5", "6", "7", "8", "9",
              "a", "b", "c", "d", "e", "f", "A", "B", "C", "D", "E", "F"}
VersionDigits == {"1", "2", "3", "4", "5"}
VariantDigits == {"8", "9", "a", "b", "A", "B"}
CharAt(s, i) == SubSeq(s, i, i)

\* /^[0-9a-f]{8}-[0-9a-f]{4}-[1-5][0-9a-f]{3}-[89ab][0-9a-f]{3}-[0-9a-f]{12}$/i
isValidGuid(value) ==
    /\ Len(value) = 36
    /\ \A i \in 1..36 :
         CASE i \in {9, 14, 19, 24} -> CharAt(value, i) = "-"
           [] i = 15 -> CharAt(value, i) \in VersionDigits
           [] i = 20 -> CharAt(value, i) \in VariantDigits
           [] OTHER -> CharAt(value, i) \in HexDigits

\* Array.prototype.join
RECURSIVE Join(_, _)
Join(parts, sep) ==
    IF parts = <<>> THEN ""
    ELSE IF Len(parts) = 1 THEN parts[1]
    ELSE parts[1] \o sep \o Join(Tail(parts), sep)

Push(cond, entry) == IF cond THEN <<entry>> ELSE <<>>

\* Mutant of validateConfig: environmentId is not checked.
validateConfig_SkipsEnvironment(cfg) ==
    LET errors ==
            Push(~Truthy(cfg.clientId), "Client ID is required")
         \o Push(~Truthy(cfg.tenantId), "Tenant ID is required")
         \o Push(~Truthy(cfg.botIdentifier), "Bot Identifier is required")
         \o Push(Truthy(cfg.clientId) /\ ~isValidGuid(cfg.clientId),
                 "Client ID must be a valid GUID")
         \o Push(Truthy(cfg.tenantId) /\ ~isValidGuid(cfg.tenantId),
                 "Tenant ID must be a valid GUID")
    IN [isValid |-> Len(errors) = 0, errors |-> errors]

\* Mutant of validateConfig: the client id is not checked.
validateConfig_SkipsClientId(cfg) ==
    LET errors ==
            Push(~Truthy(cfg.tenantId), "Tenant ID is required")
         \o Push(~Truthy(cfg.botIdentifier), "Bot Identifier is required")
         \o Push(~Truthy(cfg.environmentId), "Environment ID is required")
         \o Push(Truthy(cfg.tenantId) /\ ~isValidGuid(cfg.tenantId),
                 "Tenant ID must be a valid GUID")
    IN [isValid |-> Len(errors) = 0, errors |-> errors]

validateConfig(cfg) ==
    LET errors ==
            Push(~Truthy(cfg.clientId), "Client ID is required")
         \o Push(~Truthy(cfg.tenantId), "Tenant ID is required")
         \o Push(~Truthy(cfg.botIdentifier), "Bot Identifier is required")
         \o Push(~Truthy(cfg.environmentId), "Environment ID is required")
         \o Push(Truthy(cfg.clientId) /\ ~isValidGuid(cfg.clientId),
                 "Client ID must be a valid GUID")
         \o Push(Truthy(cfg.tenantId) /\ ~isValidGuid(cfg.tenantId),
                 "Tenant ID must be a valid GUID")
    IN [isValid |-> Len(errors) = 0, errors |-> errors]

\* Configurations a caller hands to createAgentClient.
GuidInputs == {"", GoodGuid, ReadmeClientId}
OpaqueInputs == {"", "cr6f2_agent"}
Configs == [clientId : GuidInputs, tenantId : {"", GoodGuid, NotAGuid},
            botIdentifier : OpaqueInputs, environmentId : OpaqueInputs]

(* ------------------------- external collaborators ---------------------- *)
\* access tokens the identity provider issues: a fresh one per acquisition,
\* named after the sendMessage call (seq) that asked for it
Tokens(seq) == {"token-" \o ToString(seq)}
\* token lifetimes (expiresOn - now); expiresOn may also be null
Lifetimes == {1}
\* AuthenticationResult of acquireTokenSilent / loginPopup at instant t
AuthResults(seq, t) ==
    [accessToken : Tokens(seq),
     expiresOn : {NoDate} \cup {Date(t + d) : d \in Lifetimes}]

\* conversation ids the agent service assigns (opaque server-generated ids):
\* a fresh one per startConversation, named after the call (seq) that asked
ConversationIds(seq) == {"conv-" \o ToString(seq)}
\* conversationActivity.conversation?.id: an id, or undefined
StartResults(seq) == ConversationIds(seq) \cup {Null}

AdaptiveCardType == "application/vnd.microsoft.card.adaptive"
Activity(type, text, attachments, actions) ==
    [type |-> type, text |-> text, attachments |-> attachments,
     suggestedActions |-> actions]
Card(name) == [contentType |-> AdaptiveCardType, content |-> "card-body", name |-> name]
HeroCard == [contentType |-> "application/vnd.microsoft.card.hero",
             content |-> "hero-body", name |-> "Hero"]

\* Replies askQuestionAsync resolves with (ordered activities).  An absent
\* activity.text is Null; an absent suggestedActions is the empty sequence.
ReplySamples ==
    { <<Activity("message", "Hello", <<>>, <<>>)>>,
      <<>>,
      <<Activity("message", "", <<HeroCard, Card(Null)>>, <<>>)>>,
      <<Activity("typing", "ignored", <<Card("T")>>,
                 <<[title |-> "Wait", value |-> "wait"]>>),
        Activity("message", " Hi ", <<Card("A")>>,
                 <<[title |-> "Yes", value |-> "yes"]>>),
        Activity("message", "  ", <<>>, <<>>),
        Activity("message", "there", <<HeroCard, Card("B")>>,
                 <<[title |-> "No", value |-> "no"],
                   [title |-> "Maybe", value |-> "maybe"]>>)>>,
      <<Activity("event", Null, <<Card("E")>>, <<>>)>> }

Messages == {"hello"}

(* ------------------------------- state --------------------------------- *)
VARIABLES
    config,                 \* AgentClient.config
    msalInstance,           \* PCFAuth.msalInstance: Null or "msal"
    pcfConfig,              \* PCFAuth.config: NoConfig or <<the AgentConfig>>
    cachedToken,            \* PCFAuth.cachedToken
    tokenExpiryTime,        \* PCFAuth.tokenExpiryTime
    authStatusCallback,     \* PCFAuth.authStatusCallback
    copilotClient,          \* AgentClient.copilotClient
    currentConversationId,  \* AgentClient.currentConversationId
    accounts,               \* accounts the identity provider knows
    now,                    \* the wall clock read by new Date()
    calls,                  \* sendMessage calls: position and locals
    opsBegun,               \* operations begun so far
    ui,                     \* state of the AgentInterface component
    hist                    \* observation only: what has happened on the
                            \* client (startConversation calls, first
                            \* successful turn, resets); no step of the
                            \* program depends on it

vars == <<config, msalInstance, pcfConfig, cachedToken, tokenExpiryTime,
          authStatusCallback, copilotClient, currentConversationId, accounts, now, calls,
          opsBegun, hist, ui>>

authVars == <<msalInstance, pcfConfig, cachedToken, tokenExpiryTime,
              authStatusCallback>>

NoConfig == <<>>
\* The component as mounted (AgentInterface.tsx lines 475-503): an empty
\* configuration, no client, nothing loading, no response, no history.
\* agentClient is 0 for null and n for the n-th client constructed.
EmptyConfig == [clientId |-> "", tenantId |-> "", botIdentifier |-> "",
                environmentId |-> ""]
NoEnvelope == [client |-> 0, success |-> FALSE, actions |-> FALSE]
InitialUi ==
    [config |-> EmptyConfig, agentClient |-> 0, clients |-> 0,
     loading |-> FALSE, showErrorPopup |-> FALSE, error |-> FALSE,
     response |-> NoEnvelope, conversationHistory |-> <<>>, sends |-> <<>>]

\* authStatusCallback when no function is stored in it (line 55); a stored
\* function is <<f>>, where f.throws tells whether the function throws when
\* it is called
NoCallback == <<>>
Callback(throws) == <<[throws |-> throws]>>
Calls == {1, 2}
NoClient == [token |-> Null, builtBy |-> 0]
NoResponse == [success |-> FALSE, conversationId |-> Null, message |-> ""]

NoAuthResult == [accessToken |-> Null, expiresOn |-> NoDate]

IdleCall ==
    [pc |-> "idle", op |-> "sendMessage", seq |-> 0,
     message |-> "", continueConversation |-> TRUE,
     initializedAtAcquire |-> FALSE,
     startTime |-> 0, trace |-> <<>>, heldAtBegin |-> Null,
     validAtAcquire |-> FALSE, cachedAtAcquire |-> Null,
     heldAtAcquire |-> "none", authResult |-> NoAuthResult,
     viaAtAcquire |-> "none", silentError |-> JsNullish, cause |-> JsNullish,
     accessToken |-> Null, conversationId |-> Null,
     startedId |-> Null, askedId |-> Null, afterReset |-> FALSE,
     received |-> <<>>, startedVia |-> 0, askedVia |-> 0,
     events |-> <<>>,
     caught |-> JsNullish, outcome |-> "none", response |-> NoResponse]

Settled(call) == call.pc \in {"idle", "done"}
Quiescent == \A c \in Calls : Settled(calls[c])

(* ------------------------------ PCFAuth -------------------------------- *)
\* Mutant of isCachedTokenValid: the expiry is not looked at.
isCachedTokenValid_IgnoresExpiry == Truthy(cachedToken)

isCachedTokenValid ==
    /\ Truthy(cachedToken)
    /\ tokenExpiryTime /= NoDate
    /\ now < tokenExpiryTime[1]

\* Mutant of getTokenInfo: a held token is reported valid.
getTokenInfo_ValidWhenHeld ==
    [hasToken |-> Truthy(cachedToken),
     expiresAt |-> IF tokenExpiryTime /= NoDate
                   THEN toISOString(tokenExpiryTime[1]) ELSE Null,
     isValid |-> Truthy(cachedToken)]

getTokenInfo ==
    [hasToken |-> Truthy(cachedToken),
     expiresAt |-> IF tokenExpiryTime /= NoDate
                   THEN toISOString(tokenExpiryTime[1]) ELSE Null,
     isValid |-> isCachedTokenValid]

getErrorMessage(error) ==
    IF error.kind = "Error" THEN error.message ELSE "Unknown error"

\* PCFAuth.initialize as run by the AgentClient constructor: TRUE when it
\* returns, FALSE when it throws (the constructor swallows the error).
initializeSucceeds(agentConfig) ==
    ~(~Truthy(agentConfig.clientId) \/ ~Truthy(agentConfig.tenantId))

\* the error initialize throws (lines 64-66)
MissingIdsError == JsError("ClientId and TenantId are required for authentication")

\* Mutant of validateInitialization: the check is skipped.
validateInitialization_Skipped == TRUE

validateInitialization == ~(msalInstance = Null \/ pcfConfig = NoConfig)
NotInitializedError == JsError("PCF Auth not initialized - call initialize() first")

\* Mutant of cacheAndReturnToken: the expiry is not stored.
cacheAndReturnToken_DropsExpiry(result) ==
    [cachedToken |-> result.accessToken, tokenExpiryTime |-> NoDate]

\* cacheAndReturnToken: the cache after storing an AuthenticationResult
cacheAndReturnToken(result) ==
    [cachedToken |-> result.accessToken, tokenExpiryTime |-> result.expiresOn]

\* Errors built by performInteractiveLogin / performInteractiveLoginForToken
InteractiveLoginError(loginError) ==
    JsError("Interactive login failed: " \o getErrorMessage(loginError))
\* Mutant of InteractiveTokenError: the login wording is used.
InteractiveTokenError_AsLoginError(interactiveError) ==
    JsError("Interactive login failed: " \o getErrorMessage(interactiveError))
InteractiveTokenError(interactiveError) ==
    JsError("Interactive token acquisition failed: " \o getErrorMessage(interactiveError))

\* createAuthError (lines 251-258); typeof null is "object", the nullish
\* value stands for undefined here
createAuthError(error) ==
    [name |-> IF error.kind = "Error" THEN "Error" ELSE "Unknown",
     message |-> IF error.kind = "Error" THEN error.message ELSE "Unknown error",
     type |-> CASE error.kind = "Error" -> "object"
                [] error.kind = "string" -> "string"
                [] OTHER -> "undefined",
     timestamp |-> toISOString(now)]

\* The AuthStatus objects handed to the callback (lines 265-268, 278-281);
\* an absent optional field is <<>>
AuthSuccessStatus(tokenInfo) ==
    [isAuthenticated |-> TRUE, error |-> <<>>, tokenInfo |-> <<tokenInfo>>]
AuthErrorStatus(error) ==
    [isAuthenticated |-> FALSE, error |-> <<createAuthError(error)>>,
     tokenInfo |-> <<>>]

\* `if (this.authStatusCallback) { this.authStatusCallback(status) }`: the
\* call is recorded in the events of the acquisition that made it
CallbackInvoked_Never(events, status) == events
CallbackInvoked(events, status) ==
    IF authStatusCallback = NoCallback THEN events ELSE Append(events, status)

\* The call of the callback is not guarded (lines 264-269, 277-282): what
\* the callback throws leaves notifyAuthSuccess / notifyAuthError.
CallbackThrows == authStatusCallback /= NoCallback /\ authStatusCallback[1].throws
CallbackError == JsError("listener failed")

\* notifyAuthError(error) (lines 276-283) inside an acquisition
notifyAuthError(call, error) ==
    [call EXCEPT !.events = CallbackInvoked(@, AuthErrorStatus(error))]

\* `this.notifyAuthError(error); throw error;`: the value that leaves the
\* two statements
ThrownAfterNotify(error) == IF CallbackThrows THEN CallbackError ELSE error

(* ---------------------------- AgentClient ------------------------------ *)
\* String.prototype.trim (blanks only)
RECURSIVE TrimLeft(_)
TrimLeft(s) ==
    IF Len(s) > 0 /\ CharAt(s, 1) = " " THEN TrimLeft(SubSeq(s, 2, Len(s))) ELSE s
RECURSIVE TrimRight(_)
TrimRight(s) ==
    IF Len(s) > 0 /\ CharAt(s, Len(s)) = " "
    THEN TrimRight(SubSeq(s, 1, Len(s) - 1)) ELSE s
trim(s) == TrimRight(TrimLeft(s))

RECURSIVE Flatten(_)
Flatten(seqs) == IF seqs = <<>> THEN <<>> ELSE Head(seqs) \o Flatten(Tail(seqs))

IsMessage(activity) == activity.type = "message"
HasText(activity) == Truthy(activity.text) /\ Truthy(trim(activity.text))
\* Mutant of IsAdaptiveCard: every attachment counts as a card.
IsAdaptiveCard_Any(attachment) == TRUE
IsAdaptiveCard(attachment) == attachment.contentType = AdaptiveCardType
CardEntry(attachment) ==
    [content |-> attachment.content, contentType |-> attachment.contentType,
     name |-> IF Truthy(attachment.name) THEN attachment.name ELSE "Adaptive Card"]

\* The replies.forEach loop and the object sendMessageToAgent returns.
normalizeReplies(replies, conversationId) ==
    LET msgs == SelectSeq(replies, IsMessage)
        withText == SelectSeq(msgs, HasText)
        textMessages == [i \in 1..Len(withText) |-> trim(withText[i].text)]
        adaptiveCards ==
            Flatten([i \in 1..Len(msgs) |->
                LET cards == SelectSeq(msgs[i].attachments, IsAdaptiveCard)
                IN [j \in 1..Len(cards) |-> CardEntry(cards[j])]])
        suggestedActions ==
            Flatten([i \in 1..Len(msgs) |-> msgs[i].suggestedActions])
        responseText == Join(textMessages, "\n\n")
    IN [text |-> responseText,
        message |-> responseText,
        id |-> "response-" \o ToString(now),
        conversationId |-> conversationId,
        activities |-> replies,
        suggestedActions |-> suggestedActions,
        adaptiveCards |-> adaptiveCards,
        hasAdaptiveCards |-> Len(adaptiveCards) > 0,
        hasText |-> responseText /= "",
        hasSuggestedActions |-> Len(suggestedActions) > 0]

\* a || b on strings
OrElse(a, b) == IF Truthy(a) THEN a ELSE b

\* Mutant of SuccessEnvelope: the placeholder is used whenever there is no
\* text, cards or not.
SuccessEnvelope_AlwaysPlaceholder(call, agentResponse) ==
    [message |-> OrElse(agentResponse.text,
                   OrElse(agentResponse.message, "No response from agent")),
     success |-> TRUE,
     timestamp |-> toISOString(now),
     conversationId |-> OrElse(agentResponse.conversationId,
                          OrElse(agentResponse.id, "")),
     metadata |->
        [botId |-> config.botIdentifier,
         environmentId |-> config.environmentId,
         authenticated |-> TRUE,
         agentResponseId |-> agentResponse.id,
         duration |-> now - call.startTime,
         startTime |-> toISOString(call.startTime),
         endTime |-> toISOString(now),
         conversationId |-> agentResponse.conversationId,
         suggestedActions |-> agentResponse.suggestedActions,
         adaptiveCards |-> agentResponse.adaptiveCards,
         activitiesCount |-> Len(agentResponse.activities),
         hasAdaptiveCards |-> agentResponse.hasAdaptiveCards,
         hasText |-> agentResponse.hasText,
         hasSuggestedActions |-> agentResponse.hasSuggestedActions,
         fullActivities |-> agentResponse.activities]]

\* The success envelope built by sendMessage (lines 378-403).
SuccessEnvelope(call, agentResponse) ==
    [message |-> OrElse(agentResponse.text,
                   OrElse(agentResponse.message,
                     IF agentResponse.hasAdaptiveCards THEN ""
                     ELSE "No response from agent")),
     success |-> TRUE,
     timestamp |-> toISOString(now),
     conversationId |-> OrElse(agentResponse.conversationId,
                          OrElse(agentResponse.id, "")),
     metadata |->
        [botId |-> config.botIdentifier,
         environmentId |-> config.environmentId,
         authenticated |-> TRUE,
         agentResponseId |-> agentResponse.id,
         duration |-> now - call.startTime,
         startTime |-> toISOString(call.startTime),
         endTime |-> toISOString(now),
         conversationId |-> agentResponse.conversationId,
         suggestedActions |-> agentResponse.suggestedActions,
         adaptiveCards |-> agentResponse.adaptiveCards,
         activitiesCount |-> Len(agentResponse.activities),
         hasAdaptiveCards |-> agentResponse.hasAdaptiveCards,
         hasText |-> agentResponse.hasText,
         hasSuggestedActions |-> agentResponse.hasSuggestedActions,
         fullActivities |-> agentResponse.activities]]

\* Mutant of FailureEnvelope: the duration is not computed on failure.
FailureEnvelope_ZeroDuration(call, error) ==
    [message |-> "API Error: " \o MessageProperty(error),
     success |-> FALSE,
     timestamp |-> toISOString(now),
     conversationId |-> "error",
     metadata |->
        [duration |-> 0,
         startTime |-> toISOString(call.startTime),
         endTime |-> toISOString(now),
         error |-> IF error.kind = "Error" THEN error.message ELSE Null,
         botId |-> config.botIdentifier,
         environmentId |-> config.environmentId,
         authenticated |-> FALSE]]

\* The failure envelope built by sendMessage's catch block (lines 412-426).
FailureEnvelope(call, error) ==
    [message |-> "API Error: " \o MessageProperty(error),
     success |-> FALSE,
     timestamp |-> toISOString(now),
     conversationId |-> "error",
     metadata |->
        [duration |-> now - call.startTime,
         startTime |-> toISOString(call.startTime),
         endTime |-> toISOString(now),
         error |-> IF error.kind = "Error" THEN error.message ELSE Null,
         botId |-> config.botIdentifier,
         environmentId |-> config.environmentId,
         authenticated |-> FALSE]]

\* sendMessage's catch block: it reads error.message, which itself throws
\* when the caught value is null/undefined, and then the promise rejects.
sendMessageCatch(call, error) ==
    IF MessageReadThrows(error)
    THEN [call EXCEPT !.pc = "done", !.caught = error, !.outcome = "rejected",
                      !.response = NoResponse]
    ELSE [call EXCEPT !.pc = "done", !.caught = error, !.outcome = "returned",
                      !.response = FailureEnvelope(call, error)]

\* acquireToken throws (lines 108-111, 130-137): a call made directly on the
\* authenticator rejects with the value; inside sendMessage the value
\* reaches sendMessage's catch block.
acquireTokenThrows(call, error) ==
    LET told == notifyAuthError(call, error)
        thrown == ThrownAfterNotify(error)
    IN IF call.op = "acquireToken"
       THEN [told EXCEPT !.pc = "done", !.caught = thrown, !.outcome = "rejected"]
       ELSE sendMessageCatch(told, thrown)

\* Mutant of notifyAuthSuccess: no status is delivered.
notifyAuthSuccess_Silent(call, tokenInfo) == [call EXCEPT !.pc = "tokenReady"]

\* acquireToken after acquireTokenSilentOrInteractive resolved (lines
\* 104-111): notifyAuthSuccess() with the token information read after the
\* token was cached, then the token is returned; what the callback throws is
\* caught by acquireToken's catch block.
notifyAuthSuccess(call, tokenInfo) ==
    LET told == [call EXCEPT
                    !.events = CallbackInvoked(@, AuthSuccessStatus(tokenInfo))]
    IN IF CallbackThrows
       THEN acquireTokenThrows(told, CallbackError)
       ELSE [told EXCEPT !.pc = "tokenReady"]

\* Mutant of sendMessageReturn: the envelope reports the conversation id
\* held when the call began.
sendMessageReturn_ReportsHeldAtBegin(call, agentResponse) ==
    [call EXCEPT !.pc = "done", !.outcome = "returned",
                 !.response = [SuccessEnvelope(call, agentResponse) EXCEPT
                                  !.conversationId = OrElse(call.heldAtBegin, "")]]

\* sendMessage's return on the success path
sendMessageReturn(call, agentResponse) ==
    [call EXCEPT !.pc = "done", !.outcome = "returned",
                 !.response = SuccessEnvelope(call, agentResponse)]

\* The catch blocks of initializeCopilotClient and sendMessageToAgent wrap
\* the caught value in a new Error built from error.message.
WrapError(prefix, error) ==
    IF MessageReadThrows(error) THEN TypeErrorOnRead
    ELSE JsError(prefix \o MessageProperty(error))
ClientInitError(error) ==
    WrapError("Failed to initialize Copilot Studio Client: ", error)
CommunicationError(error) ==
    WrapError("Failed to communicate with agent: ", error)
NoConversationIdError == JsError("Failed to get conversation ID from agent")
ConfigInvalidError(validation) ==
    JsError("Configuration invalid: " \o Join(validation.errors, ", "))

Called(call, name) == [call EXCEPT !.trace = Append(@, name)]
Count(call, name) == Cardinality({i \in 1..Len(call.trace) : call.trace[i] = name})
IdpCallNames == {"initialize", "getAllAccounts", "acquireTokenSilent", "loginPopup"}
TransportCallNames == {"startConversation", "askQuestion"}
CountIn(call, names) ==
    Cardinality({i \in 1..Len(call.trace) : call.trace[i] \in names})

\* What acquireToken finds in the cache (fields read at lines 120-122): no
\* token, a token without expiry, a token whose expiry is still ahead, or a
\* token whose expiry has been reached.
HeldToken ==
    IF cachedToken = Null \/ cachedToken = "" THEN "none"
    ELSE IF tokenExpiryTime = NoDate THEN "noExpiry"
    ELSE IF tokenExpiryTime[1] > now THEN "inWindow"
    ELSE "expired"

\* Mutant of acquireTokenEntry: the cache check is skipped.
acquireTokenEntry_NoFastPath(call) ==
    LET seen == [call EXCEPT !.validAtAcquire = getTokenInfo.isValid,
                             !.cachedAtAcquire = cachedToken,
                             !.heldAtAcquire = HeldToken,
                             !.viaAtAcquire = hist.tokenVia,
                             !.initializedAtAcquire = hist.initialized]
    IN IF ~validateInitialization
       THEN acquireTokenThrows(seen, NotInitializedError)
       ELSE [Called(seen, "initialize") EXCEPT !.pc = "msalInit"]

\* acquireToken up to its first await (lines 94-102): the cache check, then
\* validateInitialization, then the call of msalInstance.initialize().
acquireTokenEntry(call) ==
    LET seen == [call EXCEPT !.validAtAcquire = getTokenInfo.isValid,
                             !.cachedAtAcquire = cachedToken,
                             !.heldAtAcquire = HeldToken,
                             !.viaAtAcquire = hist.tokenVia,
                             !.initializedAtAcquire = hist.initialized]
    IN IF isCachedTokenValid
       THEN [seen EXCEPT !.pc = "tokenReady", !.accessToken = cachedToken]
       ELSE IF ~validateInitialization
       THEN acquireTokenThrows(seen, NotInitializedError)
       ELSE [Called(seen, "initialize") EXCEPT !.pc = "msalInit"]

\* Mutant of sendMessageEntry: the configuration is not validated.
sendMessageEntry_NoValidation(call) == acquireTokenEntry(call)

\* How the cached token was obtained, kept for calls made on the
\* authenticator directly (acquireTokenSilent or the popup, lines 172-180).
ObtainedVia(call, way) == IF call.op = "acquireToken" THEN way ELSE hist.tokenVia

\* sendMessage up to its first await (lines 355-366)
sendMessageEntry(call) ==
    LET validation == validateConfig(config)
    IN IF ~validation.isValid
       THEN sendMessageCatch(call, ConfigInvalidError(validation))
       ELSE acquireTokenEntry(call)

\* Mutant of ensureUserIsLoggedIn: acquireTokenSilent is called whatever the
\* accounts are.
ensureUserIsLoggedIn_SilentFirst(call) ==
    [Called(Called(call, "getAllAccounts"), "acquireTokenSilent")
        EXCEPT !.pc = "silent"]

\* ensureUserIsLoggedIn after msalInstance.initialize() resolved: with no
\* account it opens the login popup, otherwise acquireTokenSilent is called.
ensureUserIsLoggedIn(call) ==
    LET asked == Called(call, "getAllAccounts")
    IN IF accounts = 0
       THEN [Called(asked, "loginPopup") EXCEPT !.pc = "login"]
       ELSE [Called(asked, "acquireTokenSilent") EXCEPT !.pc = "silent"]

\* Mutant of sendMessageToAgentEntry: a held id is never reused.
sendMessageToAgentEntry_AlwaysStarts(call) ==
    [held |-> IF ~call.continueConversation THEN Null ELSE currentConversationId,
     call |-> [Called(call, "startConversation") EXCEPT !.pc = "start"]]

\* Mutant of sendMessageToAgentEntry: continueConversation is ignored, a
\* held id is always reused.
sendMessageToAgentEntry_IgnoresFlag(call) ==
    IF Truthy(currentConversationId)
    THEN [held |-> currentConversationId,
          call |-> [Called(call, "askQuestion") EXCEPT
                       !.pc = "ask", !.conversationId = currentConversationId,
                       !.askedId = currentConversationId]]
    ELSE [held |-> currentConversationId,
          call |-> [Called(call, "startConversation") EXCEPT !.pc = "start"]]

\* Mutant of sendMessageToAgentEntry: the held id is cleared on every turn.
sendMessageToAgentEntry_AlwaysClears(call) ==
    [held |-> Null,
     call |-> [Called(call, "startConversation") EXCEPT !.pc = "start"]]

\* Mutant of sendMessageToAgentEntry: with continueConversation false a new
\* conversation is started but the held id is not cleared.
sendMessageToAgentEntry_KeepsHeld(call) ==
    IF Truthy(currentConversationId) /\ call.continueConversation
    THEN [held |-> currentConversationId,
          call |-> [Called(call, "askQuestion") EXCEPT
                       !.pc = "ask", !.conversationId = currentConversationId,
                       !.askedId = currentConversationId,
                       !.askedVia = copilotClient.builtBy]]
    ELSE [held |-> currentConversationId,
          call |-> [Called(call, "startConversation") EXCEPT
                       !.pc = "start", !.startedVia = copilotClient.builtBy]]

\* sendMessageToAgent up to its first await (lines 467-499): the held id
\* after the reset, and the call suspended in startConversationAsync or
\* askQuestionAsync.
sendMessageToAgentEntry(call) ==
    LET held == IF ~call.continueConversation THEN Null ELSE currentConversationId
    IN IF copilotClient = NoClient
       THEN [held |-> currentConversationId,
             call |-> sendMessageCatch(call,
                         JsError("Copilot Studio Client not initialized"))]
       ELSE IF Truthy(held) /\ call.continueConversation
       THEN [held |-> held,
             call |-> [Called(call, "askQuestion") EXCEPT
                          !.pc = "ask", !.conversationId = held, !.askedId = held,
                          !.askedVia = copilotClient.builtBy]]
       ELSE [held |-> held,
             call |-> [Called(call, "startConversation") EXCEPT
                          !.pc = "start", !.startedVia = copilotClient.builtBy]]

\* Mutant of resetConversationContext: the id is kept.
resetConversationContext_KeepsId ==
    [currentConversationId |-> currentConversationId,
     copilotClient |-> copilotClient,
     cachedToken |-> cachedToken, tokenExpiryTime |-> tokenExpiryTime]

\* Mutant of resetConversationContext: the token cache is dropped as well.
resetConversationContext_DropsToken ==
    [currentConversationId |-> Null, copilotClient |-> copilotClient,
     cachedToken |-> Null, tokenExpiryTime |-> NoDate]

\* resetConversationContext (lines 339-341): the client state it leaves
resetConversationContext ==
    [currentConversationId |-> Null, copilotClient |-> copilotClient,
     cachedToken |-> cachedToken, tokenExpiryTime |-> tokenExpiryTime]

(* ------------------------------ actions -------------------------------- *)
Init ==
    /\ config \in Configs
    /\ msalInstance = IF initializeSucceeds(config) THEN "msal" ELSE Null
    /\ pcfConfig = IF initializeSucceeds(config) THEN <<config>> ELSE NoConfig
    /\ cachedToken = Null
    /\ tokenExpiryTime = NoDate
    /\ authStatusCallback = NoCallback
    /\ ui = InitialUi
    /\ copilotClient = NoClient
    /\ currentConversationId = Null
    /\ accounts \in {0, 1}
    /\ now = 0
    /\ calls = [c \in Calls |-> IdleCall]
    /\ opsBegun = 0
    /\ hist = [starts |-> 0, firstOkId |-> Null, firstOkSeq |-> 0,
               startsAtFirstOk |-> 0, onlyContinue |-> TRUE,
               resetPending |-> FALSE, idBeforeReset |-> Null,
               resetsInRow |-> 0, tokenVia |-> "none",
               initialized |-> initializeSucceeds(config),
               initializeEvents |-> <<>>, tokenInfo |-> <<>>]

FreeSlot(c) == Settled(calls[c]) /\ \A d \in Calls : Settled(calls[d]) => c <= d

\* sendMessage(message, continueConversation) is called
SendMessage(c, message, continueConversation) ==
    /\ opsBegun < MaxOps
    /\ FreeSlot(c)
    /\ opsBegun' = opsBegun + 1
    /\ calls' = [calls EXCEPT ![c] =
          sendMessageEntry([IdleCall EXCEPT
              !.seq = opsBegun + 1,
              !.message = message,
              !.continueConversation = continueConversation,
              !.startTime = now,
              !.heldAtBegin = currentConversationId])]
    /\ hist' = [hist EXCEPT !.onlyContinue = @ /\ continueConversation,
                            !.resetsInRow = 0]
    /\ UNCHANGED <<ui, config, authVars, copilotClient, currentConversationId,
                   accounts, now>>

\* msalInstance.initialize() resolves
MsalInitializeReturns(c) ==
    /\ calls[c].pc = "msalInit"
    /\ calls' = [calls EXCEPT ![c] = ensureUserIsLoggedIn(@)]
    /\ UNCHANGED <<hist, ui, config, authVars, copilotClient, currentConversationId,
                   accounts, now, opsBegun>>

\* msalInstance.initialize() rejects: acquireToken rethrows the value
MsalInitializeThrows(c, error) ==
    /\ calls[c].pc = "msalInit"
    /\ calls' = [calls EXCEPT ![c] = acquireTokenThrows(@, error)]
    /\ UNCHANGED <<hist, ui, config, authVars, copilotClient, currentConversationId,
                   accounts, now, opsBegun>>

\* performInteractiveLogin: loginPopup resolves, the account is established
LoginPopupReturns(c) ==
    /\ calls[c].pc = "login"
    /\ accounts' = 1
    /\ calls' = [calls EXCEPT ![c] =
          [Called(Called(@, "getAllAccounts"), "acquireTokenSilent")
              EXCEPT !.pc = "silent"]]
    /\ UNCHANGED <<hist, ui, config, authVars, copilotClient, currentConversationId,
                   now, opsBegun>>

\* performInteractiveLogin: loginPopup rejects
LoginPopupThrows(c, loginError) ==
    /\ calls[c].pc = "login"
    /\ calls' = [calls EXCEPT ![c] =
          LET error == InteractiveLoginError(loginError)
          IN acquireTokenThrows(
                 notifyAuthError([@ EXCEPT !.cause = loginError], error),
                 ThrownAfterNotify(error))]
    /\ UNCHANGED <<hist, ui, config, authVars, copilotClient, currentConversationId,
                   accounts, now, opsBegun>>

\* acquireTokenSilent resolves: the token is cached and returned
SilentReturns(c, result) ==
    /\ calls[c].pc = "silent"
    /\ cachedToken' = cacheAndReturnToken(result).cachedToken
    /\ tokenExpiryTime' = cacheAndReturnToken(result).tokenExpiryTime
    /\ UNCHANGED <<ui, config, msalInstance, pcfConfig, authStatusCallback,
                   copilotClient, currentConversationId, accounts, now, opsBegun>>
    /\ calls' = [calls EXCEPT ![c] =
          notifyAuthSuccess([@ EXCEPT !.accessToken = result.accessToken,
                                      !.authResult = result],
                            getTokenInfo')]
    /\ hist' = [hist EXCEPT !.tokenVia = ObtainedVia(calls[c], "silent")]

\* Mutant of SilentThrows: the failed silent acquisition drops the cached
\* token.
SilentThrows_ClearsCache(c, silentError) ==
    /\ calls[c].pc = "silent"
    /\ cachedToken' = Null
    /\ tokenExpiryTime' = NoDate
    /\ calls' = [calls EXCEPT ![c] =
          [Called(@, "loginPopup") EXCEPT !.pc = "tokenPopup",
                                          !.silentError = silentError]]
    /\ UNCHANGED <<hist, ui, config, msalInstance, pcfConfig, authStatusCallback,
                   copilotClient, currentConversationId, accounts, now, opsBegun>>

\* acquireTokenSilent rejects: fall back to loginPopup
SilentThrows(c, silentError) ==
    /\ calls[c].pc = "silent"
    /\ calls' = [calls EXCEPT ![c] =
          [Called(@, "loginPopup") EXCEPT !.pc = "tokenPopup",
                                          !.silentError = silentError]]
    /\ UNCHANGED <<hist, ui, config, authVars, copilotClient, currentConversationId,
                   accounts, now, opsBegun>>

\* performInteractiveLoginForToken: loginPopup resolves with a token
TokenPopupReturns(c, result) ==
    /\ calls[c].pc = "tokenPopup"
    /\ accounts' = 1
    /\ cachedToken' = cacheAndReturnToken(result).cachedToken
    /\ tokenExpiryTime' = cacheAndReturnToken(result).tokenExpiryTime
    /\ UNCHANGED <<ui, config, msalInstance, pcfConfig, authStatusCallback,
                   copilotClient, currentConversationId, now, opsBegun>>
    /\ calls' = [calls EXCEPT ![c] =
          notifyAuthSuccess([@ EXCEPT !.accessToken = result.accessToken,
                                      !.authResult = result],
                            getTokenInfo')]
    /\ hist' = [hist EXCEPT !.tokenVia = ObtainedVia(calls[c], "interactive")]

\* performInteractiveLoginForToken: loginPopup rejects
TokenPopupThrows(c, interactiveError) ==
    /\ calls[c].pc = "tokenPopup"
    /\ calls' = [calls EXCEPT ![c] =
          LET error == InteractiveTokenError(interactiveError)
          IN acquireTokenThrows(
                 notifyAuthError([@ EXCEPT !.cause = interactiveError], error),
                 ThrownAfterNotify(error))]
    /\ UNCHANGED <<hist, ui, config, authVars, copilotClient, currentConversationId,
                   accounts, now, opsBegun>>

\* Mutant of ClientConstructed: the client is built without the token.
ClientConstructed_NoToken(c) ==
    /\ calls[c].pc = "tokenReady"
    /\ copilotClient' = [token |-> Null, builtBy |-> c]
    /\ calls' = [calls EXCEPT ![c] =
          [Called(@, "new CopilotStudioClient") EXCEPT !.pc = "clientReady"]]
    /\ UNCHANGED <<hist, ui, config, authVars, currentConversationId, accounts, now,
                   opsBegun>>

\* initializeCopilotClient: new CopilotStudioClient(settings, accessToken)
ClientConstructed(c) ==
    /\ calls[c].pc = "tokenReady"
    /\ copilotClient' = [token |-> calls[c].accessToken, builtBy |-> c]
    /\ calls' = [calls EXCEPT ![c] =
          [Called(@, "new CopilotStudioClient") EXCEPT !.pc = "clientReady"]]
    /\ UNCHANGED <<hist, ui, config, authVars, currentConversationId, accounts, now,
                   opsBegun>>

\* initializeCopilotClient: the constructor throws
ClientConstructorThrows(c, error) ==
    /\ calls[c].pc = "tokenReady"
    /\ calls' = [calls EXCEPT ![c] =
          sendMessageCatch(Called(@, "new CopilotStudioClient"),
                           ClientInitError(error))]
    /\ UNCHANGED <<hist, ui, config, authVars, copilotClient, currentConversationId,
                   accounts, now, opsBegun>>

\* sendMessageToAgent starts: reset or reuse of the held conversation id
ConversationResolved(c) ==
    /\ calls[c].pc = "clientReady"
    /\ LET r == sendMessageToAgentEntry(
                    [calls[c] EXCEPT !.afterReset = hist.resetPending])
       IN /\ currentConversationId' = r.held
          /\ calls' = [calls EXCEPT ![c] = r.call]
          /\ hist' = [hist EXCEPT
                !.starts = @ + Count(r.call, "startConversation"),
                !.resetPending = FALSE]
    /\ UNCHANGED <<ui, config, authVars, copilotClient, accounts, now, opsBegun>>

\* Mutant of StartConversationReturns: the new id is stored only when no id
\* is held (the first call to store wins).
StartConversationReturns_KeepsFirst(c, newConversationId) ==
    /\ calls[c].pc = "start"
    /\ IF ~Truthy(newConversationId)
       THEN /\ calls' = [calls EXCEPT ![c] =
                  sendMessageCatch(@, CommunicationError(NoConversationIdError))]
            /\ UNCHANGED currentConversationId
       ELSE /\ currentConversationId' =
                  IF Truthy(currentConversationId) THEN currentConversationId
                  ELSE newConversationId
            /\ calls' = [calls EXCEPT ![c] =
                  [Called(@, "askQuestion") EXCEPT
                      !.pc = "ask",
                      !.conversationId = newConversationId,
                      !.startedId = newConversationId,
                      !.askedId = newConversationId,
                      !.askedVia = copilotClient.builtBy]]
    /\ UNCHANGED <<hist, ui, config, authVars, copilotClient, accounts, now, opsBegun>>

\* startConversationAsync resolves, with or without a conversation id
StartConversationReturns(c, newConversationId) ==
    /\ calls[c].pc = "start"
    /\ IF ~Truthy(newConversationId)
       THEN /\ calls' = [calls EXCEPT ![c] =
                  sendMessageCatch(@, CommunicationError(NoConversationIdError))]
            /\ UNCHANGED currentConversationId
       ELSE /\ currentConversationId' = newConversationId
            /\ calls' = [calls EXCEPT ![c] =
                  [Called(@, "askQuestion") EXCEPT
                      !.pc = "ask",
                      !.conversationId = newConversationId,
                      !.startedId = newConversationId,
                      !.askedId = newConversationId,
                      !.askedVia = copilotClient.builtBy]]
    /\ UNCHANGED <<hist, ui, config, authVars, copilotClient, accounts, now, opsBegun>>

\* startConversationAsync rejects
StartConversationThrows(c, error) ==
    /\ calls[c].pc = "start"
    /\ calls' = [calls EXCEPT ![c] = sendMessageCatch(@, CommunicationError(error))]
    /\ UNCHANGED <<hist, ui, config, authVars, copilotClient, currentConversationId,
                   accounts, now, opsBegun>>

\* askQuestionAsync resolves: the replies are normalized and returned
AskQuestionReturns(c, replies) ==
    /\ calls[c].pc = "ask"
    /\ calls' = [calls EXCEPT ![c] =
          sendMessageReturn([@ EXCEPT !.received = replies],
                            normalizeReplies(replies, @.conversationId))]
    /\ hist' = [hist EXCEPT
          !.firstOkId = IF @ = Null THEN calls[c].conversationId ELSE @,
          !.firstOkSeq = IF hist.firstOkId = Null THEN calls[c].seq ELSE @,
          !.startsAtFirstOk = IF hist.firstOkId = Null THEN hist.starts ELSE @]
    /\ UNCHANGED <<ui, config, authVars, copilotClient, currentConversationId,
                   accounts, now, opsBegun>>

\* Mutant of AskQuestionThrows: the question is asked again.
AskQuestionThrows_Retries(c, error) ==
    /\ calls[c].pc = "ask"
    /\ Count(calls[c], "askQuestion") < 2
    /\ calls' = [calls EXCEPT ![c] = Called(@, "askQuestion")]
    /\ UNCHANGED <<hist, ui, config, authVars, copilotClient, currentConversationId,
                   accounts, now, opsBegun>>

\* askQuestionAsync rejects
AskQuestionThrows(c, error) ==
    /\ calls[c].pc = "ask"
    /\ calls' = [calls EXCEPT ![c] = sendMessageCatch(@, CommunicationError(error))]
    /\ UNCHANGED <<hist, ui, config, authVars, copilotClient, currentConversationId,
                   accounts, now, opsBegun>>

\* resetConversationContext() is called
ResetConversationContext ==
    /\ opsBegun < MaxOps
    /\ opsBegun' = opsBegun + 1
    /\ currentConversationId' = resetConversationContext.currentConversationId
    /\ copilotClient' = resetConversationContext.copilotClient
    /\ cachedToken' = resetConversationContext.cachedToken
    /\ tokenExpiryTime' = resetConversationContext.tokenExpiryTime
    /\ hist' = [hist EXCEPT
          !.onlyContinue = FALSE,
          !.resetPending = TRUE,
          !.idBeforeReset = IF hist.resetPending THEN @ ELSE currentConversationId,
          !.resetsInRow = @ + 1]
    /\ UNCHANGED <<ui, config, msalInstance, pcfConfig, authStatusCallback,
                   accounts, now, calls>>

\* the wall clock advances
Tick ==
    /\ now < MaxTime
    /\ now' = now + 1
    /\ UNCHANGED <<hist, ui, config, authVars, copilotClient, currentConversationId,
                   accounts, calls, opsBegun>>

\* A call proceeds from one await to the next.
CallStep(c) ==
    \/ MsalInitializeReturns(c)
    \/ \E error \in Thrown : MsalInitializeThrows(c, error)
    \/ LoginPopupReturns(c)
    \/ \E error \in Thrown : LoginPopupThrows(c, error)
    \/ \E result \in AuthResults(calls[c].seq, now) : SilentReturns(c, result)
    \/ \E silentError \in SilentThrown : SilentThrows(c, silentError)
    \/ \E result \in AuthResults(calls[c].seq, now) : TokenPopupReturns(c, result)
    \/ \E error \in Thrown : TokenPopupThrows(c, error)
    \/ ClientConstructed(c)
    \/ \E error \in Thrown : ClientConstructorThrows(c, error)
    \/ ConversationResolved(c)
    \/ \E id \in StartResults(calls[c].seq) : StartConversationReturns(c, id)
    \/ \E error \in Thrown : StartConversationThrows(c, error)
    \/ \E replies \in ReplySamples : AskQuestionReturns(c, replies)
    \/ \E error \in Thrown : AskQuestionThrows(c, error)

\* One caller: an operation begins only when no sendMessage is in flight.
Next ==
    \/ \E c \in Calls, m \in Messages, cc \in BOOLEAN :
          Quiescent /\ SendMessage(c, m, cc)
    \/ Quiescent /\ ResetConversationContext
    \/ \E c \in Calls : CallStep(c)
    \/ Tick

Spec == Init /\ [][Next]_vars

(* ------------------ the authenticator used on its own ------------------ *)
\* configurations handed to PCFAuth.initialize (only clientId and tenantId
\* are read)
AuthConfigs == {cfg \in Configs : /\ cfg.botIdentifier = "cr6f2_agent"
                                  /\ cfg.environmentId = "cr6f2_agent"}

\* new PCFAuth(): every field is null
InitAuth ==
    /\ config \in {cfg \in AuthConfigs : validateConfig(cfg).isValid}
    /\ msalInstance = Null
    /\ pcfConfig = NoConfig
    /\ cachedToken = Null
    /\ tokenExpiryTime = NoDate
    /\ authStatusCallback = NoCallback
    /\ ui = InitialUi
    /\ copilotClient = NoClient
    /\ currentConversationId = Null
    /\ accounts \in {0, 1}
    /\ now = 0
    /\ calls = [c \in Calls |-> IdleCall]
    /\ opsBegun = 0
    /\ hist = [starts |-> 0, firstOkId |-> Null, firstOkSeq |-> 0,
               startsAtFirstOk |-> 0, onlyContinue |-> TRUE,
               resetPending |-> FALSE, idBeforeReset |-> Null,
               resetsInRow |-> 0, tokenVia |-> "none",
               initialized |-> FALSE, initializeEvents |-> <<>>,
               tokenInfo |-> <<>>]

\* initialize(agentConfig) (lines 62-87): throws when clientId or tenantId
\* is missing; otherwise stores the configuration and builds the MSAL
\* instance. cachedToken and tokenExpiryTime are not assigned.
AuthInitialize(agentConfig) ==
    /\ opsBegun < MaxOps
    /\ opsBegun' = opsBegun + 1
    /\ IF initializeSucceeds(agentConfig)
       THEN /\ pcfConfig' = <<agentConfig>>
            /\ msalInstance' = "msal"
            /\ hist' = [hist EXCEPT !.initialized = TRUE]
       ELSE /\ hist' = [hist EXCEPT !.initializeEvents =
                           CallbackInvoked(@, AuthErrorStatus(MissingIdsError))]
            /\ UNCHANGED <<pcfConfig, msalInstance>>
    /\ UNCHANGED <<ui, config, cachedToken, tokenExpiryTime, authStatusCallback,
                   copilotClient, currentConversationId, accounts, now, calls>>

\* acquireToken() is called on the authenticator
AcquireToken(c) ==
    /\ opsBegun < MaxOps
    /\ FreeSlot(c)
    /\ opsBegun' = opsBegun + 1
    /\ calls' = [calls EXCEPT ![c] =
          acquireTokenEntry([IdleCall EXCEPT
              !.op = "acquireToken",
              !.seq = opsBegun + 1,
              !.startTime = now])]
    /\ UNCHANGED <<hist, ui, config, authVars, copilotClient, currentConversationId,
                   accounts, now>>

\* getTokenInfo() is called (lines 289-299): it assigns no field and calls
\* nothing on the identity provider; what it returned is kept in hist.
GetTokenInfo ==
    /\ hist' = [hist EXCEPT !.tokenInfo = <<getTokenInfo>>]
    /\ UNCHANGED <<ui, config, authVars, copilotClient, currentConversationId,
                   accounts, now, calls, opsBegun>>

\* acquireToken resolves with the token (lines 96, 106)
AcquireTokenReturns(c) ==
    /\ calls[c].pc = "tokenReady"
    /\ calls[c].op = "acquireToken"
    /\ calls' = [calls EXCEPT ![c] = [@ EXCEPT !.pc = "done", !.outcome = "returned"]]
    /\ UNCHANGED <<hist, ui, config, authVars, copilotClient, currentConversationId,
                   accounts, now, opsBegun>>

\* An acquireToken call proceeds from one await to the next.
AuthStep(c) ==
    \/ MsalInitializeReturns(c)
    \/ \E error \in Thrown : MsalInitializeThrows(c, error)
    \/ LoginPopupReturns(c)
    \/ \E error \in Thrown : LoginPopupThrows(c, error)
    \/ \E result \in AuthResults(calls[c].seq, now) : SilentReturns(c, result)
    \/ \E silentError \in SilentThrown : SilentThrows(c, silentError)
    \/ \E result \in AuthResults(calls[c].seq, now) : TokenPopupReturns(c, result)
    \/ \E error \in Thrown : TokenPopupThrows(c, error)
    \/ AcquireTokenReturns(c)

\* The authenticator driven directly by one caller: initialize is
\* synchronous and may run at any moment, acquireToken is called when no
\* other acquireToken is in flight.
NextAuth ==
    \/ \E agentConfig \in AuthConfigs : AuthInitialize(agentConfig)
    \/ \E c \in Calls : Quiescent /\ AcquireToken(c)
    \/ \E c \in Calls : AuthStep(c)
    \/ GetTokenInfo
    \/ Tick

SpecAuth == InitAuth /\ [][NextAuth]_vars

(* ------------------ the authenticator with an observer ----------------- *)
\* Registration of the single status listener, as the specification
\* describes it ("a single registered listener", "at most one registered
\* observer"): the function replaces the one stored before. The source
\* declares the field (line 55) and has no statement that assigns it.
RegisterListener(throws) ==
    /\ authStatusCallback' = Callback(throws)
    /\ UNCHANGED <<hist, ui, config, msalInstance, pcfConfig, cachedToken,
                   tokenExpiryTime, copilotClient, currentConversationId,
                   accounts, now, calls, opsBegun>>

\* The authenticator driven directly, with a listener registered at any
\* moment; the listener either returns or throws when it is called.
NextObserved ==
    \/ \E throws \in BOOLEAN : RegisterListener(throws)
    \/ NextAuth

SpecObserved == InitAuth /\ [][NextObserved]_vars

(* --------------------- overlapping sendMessage calls ------------------- *)
\* A client built from a usable configuration, signed in or not.
InitRace == Init /\ validateConfig(config).isValid

\* sendMessage is async and takes no lock: on a fresh client a second call
\* begins while the first is suspended in an await, and the continuations
\* of the two calls run in any order.
RaceThrown == {JsError("network")}
RaceReplies == {<<Activity("message", "Hello", <<>>, <<>>)>>}

\* A call proceeds from one await to the next (one failure value and one
\* reply are enough for the interleavings).
RaceStep(c) ==
    \/ MsalInitializeReturns(c)
    \/ \E error \in RaceThrown : MsalInitializeThrows(c, error)
    \/ LoginPopupReturns(c)
    \/ \E error \in RaceThrown : LoginPopupThrows(c, error)
    \/ \E result \in AuthResults(calls[c].seq, now) : SilentReturns(c, result)
    \/ \E silentError \in SilentThrown : SilentThrows(c, silentError)
    \/ \E result \in AuthResults(calls[c].seq, now) : TokenPopupReturns(c, result)
    \/ \E error \in RaceThrown : TokenPopupThrows(c, error)
    \/ ClientConstructed(c)
    \/ \E error \in RaceThrown : ClientConstructorThrows(c, error)
    \/ ConversationResolved(c)
    \/ \E id \in StartResults(calls[c].seq) : StartConversationReturns(c, id)
    \/ \E error \in RaceThrown : StartConversationThrows(c, error)
    \/ \E replies \in RaceReplies : AskQuestionReturns(c, replies)
    \/ \E error \in RaceThrown : AskQuestionThrows(c, error)

NextRace ==
    \/ \E c \in Calls, m \in Messages, cc \in BOOLEAN :
          calls[c].pc = "idle" /\ SendMessage(c, m, cc)
    \/ \E c \in Calls : RaceStep(c)

SpecRace == InitRace /\ [][NextRace]_vars

(* ------------------------------ claims --------------------------------- *)
Done(c) == calls[c].pc = "done"
Returned(c) == Done(c) /\ calls[c].outcome = "returned"
Failed(c) == Returned(c) /\ ~calls[c].response.success
Succeeded(c) == Returned(c) /\ calls[c].response.success
\* the configurations validateConfig accepts
ValidConfigs == {valid : valid \in {cfg \in Configs : validateConfig(cfg).isValid}}
ConfigValid == config \in ValidConfigs
ReachedTransport(c) == CountIn(calls[c], TransportCallNames) > 0
\* the first transport call of the call is startConversation
StartsFirst(c) ==
    /\ Count(calls[c], "startConversation") = 1
    /\ \A i \in 1..Len(calls[c].trace) :
          calls[c].trace[i] = "askQuestion" =>
             \E j \in 1..(i - 1) : calls[c].trace[j] = "startConversation"

\* C1: sendMessage never rejects: every finished call has returned an
\* envelope, and the envelope has success=false whenever a failure was
\* caught, whatever value was thrown.
C1_SendMessageNeverRejects ==
    \A c \in Calls : Done(c) => Returned(c)

\* The message a thrown value carries: the message of an Error, the text of
\* a thrown string.
UnderlyingMessage(error) == error.message

\* C2: a failed envelope has conversationId "error" and messageText
\* "API Error: " followed by the message of the failure that reached
\* sendMessage; a success envelope has a conversationId other than "error".
C2_EnvelopeShape ==
    \A c \in Calls :
       /\ Failed(c) =>
             /\ calls[c].response.conversationId = "error"
             /\ calls[c].response.message =
                   "API Error: " \o UnderlyingMessage(calls[c].caught)
       /\ Succeeded(c) => calls[c].response.conversationId /= "error"

C4_ContinuationReusesConversation ==
    (hist.onlyContinue /\ hist.firstOkId /= Null) =>
       /\ hist.starts = hist.startsAtFirstOk
       /\ hist.firstOkSeq = 1 => hist.starts = 1
       /\ currentConversationId = hist.firstOkId
       /\ \A c \in Calls :
             calls[c].askedId /= Null => calls[c].askedId = hist.firstOkId

C4_Witness ==
    \E c \in Calls :
       /\ hist.onlyContinue /\ hist.firstOkSeq = 1
       /\ calls[c].seq = 3 /\ Succeeded(c)
       /\ Count(calls[c], "startConversation") = 0
       /\ hist.starts = 1

\* C5: a call with continueConversation=false that reaches the transport
\* calls startConversation first, asks on the id that call returned, and
\* leaves that id held; a call with continueConversation=true that finds an
\* id held asks on that id.
C5_FreshConversationOnDemand ==
    \A c \in Calls :
       /\ (~calls[c].continueConversation /\ ReachedTransport(c)) =>
             /\ StartsFirst(c)
             /\ calls[c].askedId /= Null => calls[c].askedId = calls[c].startedId
             /\ (calls[c].startedId /= Null /\ ~hist.resetPending) =>
                   currentConversationId = calls[c].startedId
       /\ (calls[c].continueConversation /\ Truthy(calls[c].heldAtBegin)
             /\ ReachedTransport(c)) =>
             calls[c].askedId = calls[c].heldAtBegin

C5_Witness ==
    \E c \in Calls :
       /\ Succeeded(c) /\ ~calls[c].continueConversation
       /\ Truthy(calls[c].heldAtBegin)
       /\ calls[c].startedId /= calls[c].heldAtBegin
       /\ currentConversationId = calls[c].startedId

\* C6: when a call with continueConversation=false has returned, the id
\* held before the call is no longer held (unless startConversation issued
\* that very id again), whatever the outcome of the call.
C6_NotContinuingAlwaysClears ==
    \A c \in Calls :
       (Done(c) /\ ~calls[c].continueConversation
          /\ Truthy(calls[c].heldAtBegin)) =>
          \/ currentConversationId /= calls[c].heldAtBegin
          \/ calls[c].startedId = calls[c].heldAtBegin

\* a resetConversationContext() step
ResetStep == opsBegun' = opsBegun + 1 /\ calls' = calls
\* a step of a sendMessage call made with continueConversation=false
NotContinuingStep ==
    \E c \in Calls :
       /\ calls'[c] /= calls[c]
       /\ ~calls'[c].continueConversation
       /\ ~Settled(calls[c])

\* C7: a held conversation id changes only in a resetConversationContext
\* step or in a step of a call made with continueConversation=false; turns
\* with continueConversation=true, failing ones included, keep it.
C7_ActivePersists ==
    [][(Truthy(currentConversationId)
          /\ currentConversationId' /= currentConversationId)
        => (ResetStep \/ NotContinuingStep)]_vars

C7_Witness ==
    \E c \in Calls :
       /\ Failed(c) /\ calls[c].continueConversation
       /\ Truthy(calls[c].heldAtBegin)
       /\ Count(calls[c], "askQuestion") = 1
       /\ currentConversationId = calls[c].heldAtBegin

\* C8: the first call that reaches the transport after a
\* resetConversationContext() calls startConversation before any question
\* and asks on the id that call returned, also with
\* continueConversation=true.
C8_ResetForcesNewConversation ==
    \A c \in Calls :
       (calls[c].afterReset /\ ReachedTransport(c)) =>
          /\ StartsFirst(c)
          /\ calls[c].askedId /= Null => calls[c].askedId = calls[c].startedId

C8_Witness ==
    \E c \in Calls :
       /\ calls[c].afterReset /\ calls[c].continueConversation
       /\ Truthy(hist.idBeforeReset)
       /\ Succeeded(c)
       /\ calls[c].askedId /= hist.idBeforeReset

\* the state resetConversationContext works on
clientState ==
    [currentConversationId |-> currentConversationId,
     copilotClient |-> copilotClient,
     cachedToken |-> cachedToken, tokenExpiryTime |-> tokenExpiryTime]

\* C9: a resetConversationContext() step leaves no conversation id held,
\* changes nothing else (token cache, transport client, calls and their
\* provider calls), changes nothing at all when no id was held, and the
\* state it leaves is the state a second reset would leave.
C9_ResetIdempotent ==
    [][ResetStep =>
         /\ currentConversationId' = Null
         /\ UNCHANGED <<cachedToken, tokenExpiryTime, copilotClient,
                        msalInstance, pcfConfig, accounts, calls, now, config>>
         /\ currentConversationId = Null => clientState' = clientState
         /\ resetConversationContext' = clientState']_vars

C9_Witness ==
    /\ hist.resetsInRow = 2
    /\ Truthy(hist.idBeforeReset)
    /\ Truthy(cachedToken)
    /\ copilotClient /= NoClient
    /\ currentConversationId = Null

\* C10: when getTokenInfo().isValid is true as acquireToken is entered,
\* acquireToken returns the cached token and calls the identity provider
\* not once.
C10_TokenFastPath ==
    \A c \in Calls :
       (calls[c].pc /= "idle" /\ calls[c].validAtAcquire) =>
          /\ CountIn(calls[c], IdpCallNames) = 0
          /\ calls[c].accessToken = calls[c].cachedAtAcquire
          /\ Truthy(calls[c].accessToken)

C10_Witness ==
    \E c \in Calls :
       /\ calls[c].validAtAcquire /\ Succeeded(c)
       /\ calls[c].seq > 1
       /\ calls[c].trace = <<"new CopilotStudioClient", "askQuestion">>

\* the cached token seen by call c at acquireToken had reached its expiry,
\* or had no known expiry
HeldExpired(c) == calls[c].heldAtAcquire \in {"expired", "noExpiry"}
\* call c is the operation begun last: nothing has touched the cache since
Latest(c) == calls[c].seq = opsBegun
\* the token call c got is the one the identity provider returned to it,
\* and the cache holds that result
ObtainedNew(c) ==
    /\ calls[c].authResult /= NoAuthResult
    /\ calls[c].accessToken = calls[c].authResult.accessToken
    /\ calls[c].accessToken \in Tokens(calls[c].seq)
    /\ CountIn(calls[c], IdpCallNames) > 0
    /\ Latest(c) =>
          /\ cachedToken = calls[c].authResult.accessToken
          /\ tokenExpiryTime = calls[c].authResult.expiresOn

\* C11: acquireToken never returns a cached token whose expiry has been
\* reached or is unknown: a call that found such a token and got a token
\* got a new one from the identity provider, which replaced the cached
\* token and expiry.
C11_ExpiredTokenNeverReturned ==
    \A c \in Calls :
       (HeldExpired(c) /\ Truthy(calls[c].accessToken)) => ObtainedNew(c)

C11_Witness ==
    \E c \in Calls :
       /\ calls[c].heldAtAcquire = "expired"
       /\ Truthy(calls[c].accessToken) /\ Latest(c)
       /\ calls[c].accessToken /= calls[c].cachedAtAcquire

\* acquireTokenSilent failed in call c and the token popup was opened
SilentFailedThenPopup(c) ==
    \E i \in 1..(Len(calls[c].trace) - 1) :
       /\ calls[c].trace[i] = "acquireTokenSilent"
       /\ calls[c].trace[i + 1] = "loginPopup"
\* call c found a cached token inside its validity window
HeldInWindow(c) == calls[c].heldAtAcquire = "inWindow"

\* C12: when silent acquisition fails and the popup succeeds, acquireToken
\* resolves with the token the popup returned and caches it with its
\* expiry; a following acquireToken inside the validity window of that
\* token makes no identity-provider call.
C12_InteractiveFallbackCaches ==
    \A c \in Calls :
       /\ (SilentFailedThenPopup(c) /\ Truthy(calls[c].accessToken)) =>
             /\ calls[c].accessToken = calls[c].authResult.accessToken
             /\ Latest(c) =>
                   /\ cachedToken = calls[c].authResult.accessToken
                   /\ tokenExpiryTime = calls[c].authResult.expiresOn
                   /\ hist.tokenVia = "interactive"
       /\ (calls[c].viaAtAcquire = "interactive" /\ HeldInWindow(c)) =>
             /\ CountIn(calls[c], IdpCallNames) = 0
             /\ calls[c].accessToken = calls[c].cachedAtAcquire

C12_Witness ==
    \E c \in Calls :
       /\ calls[c].viaAtAcquire = "interactive" /\ HeldInWindow(c)
       /\ Done(c) /\ calls[c].op = "acquireToken"
       /\ calls[c].outcome = "returned" /\ calls[c].trace = <<>>
       /\ calls[c].accessToken = cachedToken

\* C13: when silent acquisition fails and the popup fails too, acquireToken
\* fails with the interactive-token error built from the popup's cause,
\* not from the silent error, and sendMessage returns success=false
\* without startConversation or askQuestion.
C13_FallbackFailure ==
    \A c \in Calls :
       (Done(c) /\ ~Truthy(calls[c].accessToken) /\ SilentFailedThenPopup(c)) =>
          /\ calls[c].caught.kind = "Error"
          /\ calls[c].caught.message =
                "Interactive token acquisition failed: " \o
                (IF calls[c].cause.kind = "Error"
                 THEN calls[c].cause.message ELSE "Unknown error")
          /\ calls[c].caught /= calls[c].silentError
          /\ Failed(c)
          /\ CountIn(calls[c], TransportCallNames) = 0

C13_Witness ==
    \E c \in Calls :
       /\ SilentFailedThenPopup(c) /\ Failed(c)
       /\ calls[c].cause = JsError("network")
       /\ calls[c].silentError = JsError("interaction_required")

\* a step in which initialize(agentConfig) returns without throwing
InitializeSucceeded ==
    \E agentConfig \in AuthConfigs :
       initializeSucceeds(agentConfig) /\ AuthInitialize(agentConfig)

\* C14: after a successful initialize the token cache is empty:
\* getTokenInfo reports hasToken=false and isValid=false, whatever was
\* cached before.
C14_InitializeEmptiesCache ==
    [][InitializeSucceeded =>
          (~Truthy(cachedToken') /\ ~(getTokenInfo.isValid)')]_vars

\* C15: acquireToken on an authenticator that was never successfully
\* initialized, with no valid cached token, rejects with the
\* not-initialized error and makes no identity-provider call.
C15_NotInitializedFails ==
    \A c \in Calls :
       (/\ calls[c].pc /= "idle" /\ calls[c].op = "acquireToken"
        /\ ~calls[c].initializedAtAcquire /\ ~HeldInWindow(c)) =>
          /\ Done(c) /\ calls[c].outcome = "rejected"
          /\ calls[c].caught = JsError("PCF Auth not initialized - call initialize() first")
          /\ CountIn(calls[c], IdpCallNames) = 0
          /\ ~Truthy(calls[c].accessToken)

C15_Witness ==
    \E c \in Calls :
       /\ Done(c) /\ calls[c].op = "acquireToken"
       /\ ~calls[c].initializedAtAcquire
       /\ calls[c].outcome = "rejected" /\ calls[c].trace = <<>>

\* the field and the kind of complaint an entry of errors is about
EntryOf(entry) ==
    CASE entry = "Client ID is required" -> <<"clientId", "missing">>
      [] entry = "Tenant ID is required" -> <<"tenantId", "missing">>
      [] entry = "Bot Identifier is required" -> <<"botIdentifier", "missing">>
      [] entry = "Environment ID is required" -> <<"environmentId", "missing">>
      [] entry = "Client ID must be a valid GUID" -> <<"clientId", "format">>
      [] entry = "Tenant ID must be a valid GUID" -> <<"tenantId", "format">>
      [] OTHER -> <<"other", "other">>
\* the identifiers used as inputs, sorted by hand against the GUID pattern:
\* the README's example has "1" where the pattern wants one of 8, 9, a, b
MatchingIds == {GoodGuid, UpperGuid}
NonMatchingIds == {ReadmeClientId, NotAGuid}
ValidationInputs ==
    [clientId : {""} \cup MatchingIds \cup NonMatchingIds,
     tenantId : {""} \cup MatchingIds \cup NonMatchingIds,
     botIdentifier : OpaqueInputs, environmentId : OpaqueInputs]
\* the entries the claim asks for
ExpectedEntries(cfg) ==
    {<<f, "missing">> : f \in {g \in {"clientId", "tenantId", "botIdentifier",
                                      "environmentId"} : cfg[g] = ""}}
    \cup {<<f, "format">> : f \in {g \in {"clientId", "tenantId"} :
                                     cfg[g] \in NonMatchingIds}}
ValidationAsClaimed(cfg) ==
    LET v == validateConfig(cfg)
    IN /\ v.isValid <=> (v.errors = <<>>)
       /\ {EntryOf(v.errors[i]) : i \in 1..Len(v.errors)} = ExpectedEntries(cfg)
       /\ Len(v.errors) = Cardinality(ExpectedEntries(cfg))
\* the inputs on which validateConfig answers as claimed
AsClaimedOn == {claimed : claimed \in {cfg \in ValidationInputs : ValidationAsClaimed(cfg)}}

\* C16: validateConfig returns isValid=true exactly when errors is empty,
\* and errors holds exactly one missing-field entry per empty field and one
\* format entry per non-empty clientId / tenantId that fails the GUID
\* pattern, for the client's configuration and for every input of the table.
C16_ValidateConfigExact ==
    /\ config \in AsClaimedOn
    /\ AsClaimedOn = ValidationInputs

C16_Witness ==
    \E c \in Calls :
       /\ Failed(c)
       /\ config.clientId = ReadmeClientId /\ config.environmentId = ""
       /\ validateConfig(config).errors =
             <<"Environment ID is required", "Client ID must be a valid GUID">>
       /\ calls[c].response.message =
             "API Error: Configuration invalid: " \o
             "Environment ID is required, Client ID must be a valid GUID"

\* What a reply holds, read off the activities the transport returned.
\* scope says which activities are looked at.
AnyActivity == "any"
MessageActivity == "message"
Counted(activity, scope) == scope = AnyActivity \/ activity.type = "message"
\* the text segments: texts that are not empty or blank, surrounding blanks
\* removed
RECURSIVE SegmentsOf(_, _)
SegmentsOf(replies, scope) ==
    IF replies = <<>> THEN <<>>
    ELSE LET a == Head(replies)
         IN (IF Counted(a, scope) /\ a.text /= Null /\ trim(a.text) /= ""
             THEN <<trim(a.text)>> ELSE <<>>)
            \o SegmentsOf(Tail(replies), scope)
\* the attachments declared as interactive cards
RECURSIVE CardsIn(_)
CardsIn(attachments) ==
    IF attachments = <<>> THEN <<>>
    ELSE (IF Head(attachments).contentType = "application/vnd.microsoft.card.adaptive"
          THEN <<Head(attachments)>> ELSE <<>>) \o CardsIn(Tail(attachments))
RECURSIVE CardsOf(_, _)
CardsOf(replies, scope) ==
    IF replies = <<>> THEN <<>>
    ELSE (IF Counted(Head(replies), scope) THEN CardsIn(Head(replies).attachments)
          ELSE <<>>) \o CardsOf(Tail(replies), scope)
\* the suggested-action entries
RECURSIVE ActionsOf(_, _)
ActionsOf(replies, scope) ==
    IF replies = <<>> THEN <<>>
    ELSE (IF Counted(Head(replies), scope) THEN Head(replies).suggestedActions
          ELSE <<>>) \o ActionsOf(Tail(replies), scope)
\* segments joined by a blank line
RECURSIVE BlankLineJoined(_)
BlankLineJoined(segments) ==
    IF segments = <<>> THEN ""
    ELSE IF Tail(segments) = <<>> THEN Head(segments)
    ELSE Head(segments) \o "\n\n" \o BlankLineJoined(Tail(segments))
\* the card list of the envelope shows these attachments, in this order
ShowsCards(listed, attachments) ==
    /\ Len(listed) = Len(attachments)
    /\ \A i \in 1..Len(listed) :
          /\ listed[i].content = attachments[i].content
          /\ listed[i].contentType = attachments[i].contentType
          /\ attachments[i].name /= Null => listed[i].name = attachments[i].name

\* C17: a reply with zero text segments and zero cards yields a success
\* envelope with messageText "" and hasText false, no placeholder text.
C17_EmptyReplyStaysEmpty ==
    \A c \in Calls :
       (/\ Succeeded(c)
        /\ SegmentsOf(calls[c].received, AnyActivity) = <<>>
        /\ CardsOf(calls[c].received, AnyActivity) = <<>>) =>
          /\ calls[c].response.message = ""
          /\ ~calls[c].response.metadata.hasText

\* C18 as stated: a reply with at least one card attachment and no
\* non-empty text yields messageText "", hasAdaptiveCards true and as many
\* listed cards as card attachments were received.
C18_CardsOnlyAsStated ==
    \A c \in Calls :
       (/\ Succeeded(c)
        /\ CardsOf(calls[c].received, AnyActivity) /= <<>>
        /\ SegmentsOf(calls[c].received, AnyActivity) = <<>>) =>
          /\ calls[c].response.message = ""
          /\ calls[c].response.metadata.hasAdaptiveCards
          /\ Len(calls[c].response.metadata.adaptiveCards) =
                Len(CardsOf(calls[c].received, AnyActivity))

\* C18 (amended): a reply whose message-type activities carry at least one
\* card attachment and no non-empty text yields messageText "",
\* hasAdaptiveCards true and as many listed cards as card attachments were
\* received on message-type activities.
C18_CardsOnlyOnMessages ==
    \A c \in Calls :
       (/\ Succeeded(c)
        /\ CardsOf(calls[c].received, MessageActivity) /= <<>>
        /\ SegmentsOf(calls[c].received, MessageActivity) = <<>>) =>
          /\ calls[c].response.message = ""
          /\ calls[c].response.metadata.hasAdaptiveCards
          /\ Len(calls[c].response.metadata.adaptiveCards) =
                Len(CardsOf(calls[c].received, MessageActivity))

C18_Witness ==
    \E c \in Calls :
       /\ Succeeded(c)
       /\ calls[c].received =
             <<Activity("message", "", <<HeroCard, Card(Null)>>, <<>>)>>
       /\ Len(calls[c].response.metadata.adaptiveCards) = 1

\* C19: the messageText of a success envelope is the non-empty text
\* segments of the message-type activities, in receipt order, joined by a
\* blank line; other activities and blank text contribute nothing.
C19_TextIsJoinedSegments ==
    \A c \in Calls :
       Succeeded(c) =>
          calls[c].response.message =
             BlankLineJoined(SegmentsOf(calls[c].received, MessageActivity))

\* C20 as stated: metadata.adaptiveCards lists in order exactly the card
\* attachments of the reply activities, metadata.suggestedActions exactly
\* their suggested-action entries.
C20_ListsAsStated ==
    \A c \in Calls :
       Succeeded(c) =>
          /\ ShowsCards(calls[c].response.metadata.adaptiveCards,
                        CardsOf(calls[c].received, AnyActivity))
          /\ calls[c].response.metadata.suggestedActions =
                ActionsOf(calls[c].received, AnyActivity)

\* C20 (amended): metadata.adaptiveCards lists in order exactly the card
\* attachments of the message-type activities, metadata.suggestedActions
\* exactly the suggested-action entries of the message-type activities.
C20_ListsOfMessages ==
    \A c \in Calls :
       Succeeded(c) =>
          /\ ShowsCards(calls[c].response.metadata.adaptiveCards,
                        CardsOf(calls[c].received, MessageActivity))
          /\ calls[c].response.metadata.suggestedActions =
                ActionsOf(calls[c].received, MessageActivity)

C20_Witness ==
    \E c \in Calls :
       /\ Succeeded(c)
       /\ Len(calls[c].received) = 4
       /\ Len(calls[c].response.metadata.adaptiveCards) = 2
       /\ calls[c].response.metadata.adaptiveCards[1].name = "A"
       /\ calls[c].response.metadata.adaptiveCards[2].name = "B"
       /\ Len(calls[c].response.metadata.suggestedActions) = 3

\* a step in which call c is called
Begins(c) == calls'[c].seq /= calls[c].seq
\* a step in which call c returns an envelope
ReturnsEnvelope(c) ==
    /\ calls'[c] /= calls[c]
    /\ calls'[c].pc = "done" /\ calls'[c].outcome = "returned"
    /\ calls'[c].op = "sendMessage"

FailureStep(c) ==
    \E error \in Thrown :
       \/ MsalInitializeThrows(c, error)
       \/ LoginPopupThrows(c, error)
       \/ TokenPopupThrows(c, error)
       \/ ClientConstructorThrows(c, error)
       \/ StartConversationThrows(c, error)
       \/ AskQuestionThrows(c, error)
\* no provider call of the list is made twice by call
AtMostOnce(call) ==
    \A name \in {"startConversation", "askQuestion", "acquireTokenSilent"} :
       Count(call, name) <= 1

C23_NoMutualExclusion ==
    [][\A c \in Calls :
          /\ (/\ calls[c].pc = "clientReady"
              /\ calls'[c].pc \in {"start", "ask"}
              /\ currentConversationId = Null) =>
                /\ calls'[c].pc = "start"
                /\ Count(calls'[c], "startConversation") = 1
          /\ (calls[c].pc = "start" /\ calls'[c].pc = "ask") =>
                /\ calls'[c].startedId /= Null
                /\ currentConversationId' = calls'[c].startedId]_vars

\* both calls started a conversation, the call made first stored its id
\* last, and it asked through the client the other call constructed
C23_Witness ==
    /\ calls[1].seq = 1 /\ calls[2].seq = 2
    /\ calls[1].pc = "ask" /\ calls[2].pc = "ask"
    /\ calls[1].heldAtBegin = Null /\ calls[2].heldAtBegin = Null
    /\ Count(calls[1], "startConversation") = 1
    /\ Count(calls[2], "startConversation") = 1
    /\ calls[2].startedId /= Null
    /\ calls[1].startedId /= calls[2].startedId
    /\ currentConversationId = calls[1].startedId
    /\ copilotClient.builtBy = 2
    /\ calls[1].startedVia = 2 /\ calls[1].askedVia = 2

(* --------------------------- status events ----------------------------- *)
\* the statuses the callback was called with in the step just taken by c
NewEvents(c) ==
    SubSeq(calls'[c].events, Len(calls[c].events) + 1, Len(calls'[c].events))
\* the step in which c is handed a token by the identity provider
ObtainsToken(c) ==
    /\ calls[c].pc \in {"silent", "tokenPopup"}
    /\ calls'[c].authResult /= NoAuthResult
Registered == authStatusCallback /= NoCallback

StepEvents(c) == IF Settled(calls[c]) THEN calls'[c].events ELSE NewEvents(c)
\* the step in which acquireToken call c fails with an error of the
\* authenticator (not one thrown by the listener on the success path)
AcquireTokenFails(c) ==
    /\ calls'[c].pc = "done" /\ calls'[c].outcome = "rejected"
    /\ calls'[c] /= calls[c]
    /\ ~ObtainsToken(c)
\* the errors the failing step of c may be reporting
ErrorsOfStep(c) ==
    CASE Settled(calls[c]) -> {NotInitializedError}
      [] calls[c].pc = "login" -> {InteractiveLoginError(calls'[c].cause)}
      [] calls[c].pc = "tokenPopup" -> {InteractiveTokenError(calls'[c].cause)}
      [] OTHER -> IF CallbackThrows THEN Thrown ELSE {calls'[c].caught}

OriginalErrors(c) ==
    CASE Settled(calls[c]) -> {NotInitializedError}
      [] calls[c].pc = "login" -> {InteractiveLoginError(calls'[c].cause)}
      [] calls[c].pc = "tokenPopup" -> {InteractiveTokenError(calls'[c].cause)}
      [] OTHER -> Thrown

\* C26: what the registered listener does when it is called never changes
\* the outcome of acquireToken: the step that obtains a token leaves the
\* call about to return that token, with the token cached, and a step that
\* fails ends the call with the authentication error itself, also when the
\* listener throws.
C26_ListenerNeverAffectsCaller ==
    [][\A c \in Calls :
          /\ ObtainsToken(c) =>
                /\ calls'[c].pc = "tokenReady"
                /\ calls'[c].accessToken = calls'[c].authResult.accessToken
                /\ cachedToken' = calls'[c].authResult.accessToken
                /\ tokenExpiryTime' = calls'[c].authResult.expiresOn
          /\ AcquireTokenFails(c) => calls'[c].caught \in OriginalErrors(c)]_vars

\* The client with its public operations called again and again: a step of
\* the client is taken whenever one is possible.
FairSpec == Spec /\ WF_vars(Next)

ListenerNeverStored ==
    ~Registered /\ \A c \in Calls : calls[c].events = <<>>

\* C28: a getTokenInfo() call changes nothing of the authenticator (cache,
\* configuration, provider instance), makes no call on the identity
\* provider, and returns hasToken = a token is cached, expiresAt = the
\* cached expiry or null, isValid = a token is cached, its expiry is known
\* and the clock is before it.
C28_TokenInfoIsSnapshot ==
    [][GetTokenInfo =>
         /\ UNCHANGED <<cachedToken, tokenExpiryTime, msalInstance, pcfConfig,
                        authStatusCallback, accounts, calls>>
         /\ Len(hist'.tokenInfo) = 1
         /\ LET info == hist'.tokenInfo[1]
                held == cachedToken /= Null /\ cachedToken /= ""
            IN /\ info.hasToken = held
               /\ IF tokenExpiryTime = NoDate
                  THEN info.expiresAt = Null
                  ELSE info.expiresAt = toISOString(tokenExpiryTime[1])
               /\ info.isValid = (/\ held
                                  /\ tokenExpiryTime /= NoDate
                                  /\ now < tokenExpiryTime[1])]_vars

\* getTokenInfo() reported a held token whose expiry has been reached
C28_Witness ==
    /\ tokenExpiryTime = Date(now)
    /\ cachedToken /= Null
    /\ hist.tokenInfo /= <<>>
    /\ hist.tokenInfo[1].hasToken
    /\ ~hist.tokenInfo[1].isValid
    /\ hist.tokenInfo[1].expiresAt = toISOString(now)

(* ------------------------------ GUID check ----------------------------- *)
\* the 8-4-4-4-12 grouping of hexadecimal digits
GuidShaped(value) ==
    /\ Len(value) = 36
    /\ \A i \in 1..36 :
         IF i \in {9, 14, 19, 24} THEN CharAt(value, i) = "-"
         ELSE CharAt(value, i) \in HexDigits
\* the grouping with version digit 1..5 and variant digit 8, 9, a, b
VersionedGuid(value) ==
    /\ GuidShaped(value)
    /\ CharAt(value, 15) \in {"1", "2", "3", "4", "5"}
    /\ CharAt(value, 20) \in {"8", "9", "a", "b", "A", "B"}
\* the ids the check is applied to: those of the configuration in use and
\* the README's two examples
CheckedIds == {config.clientId, config.tenantId, ReadmeClientId, ReadmeTenantId}

\* C29: the GUID check accepts every id in GUID format, the README's
\* example Client ID and Tenant ID among them, and rejects every string
\* that lacks the 8-4-4-4-12 shape with version digit 1..5 and variant
\* digit 8, 9, a, b in either case.
C29_GuidCheckAsDocumented ==
    /\ \A id \in CheckedIds : GuidShaped(id) => isValidGuid(id)
    /\ isValidGuid(ReadmeClientId) /\ isValidGuid(ReadmeTenantId)
    /\ \A id \in CheckedIds : ~VersionedGuid(id) => ~isValidGuid(id)

\* the part of C29 the code keeps: the check is exactly the versioned shape
GuidCheckIsVersionedShape ==
    \A id \in CheckedIds \cup {UpperGuid} : isValidGuid(id) <=> VersionedGuid(id)

(* ----------------------------- first login ----------------------------- *)
\* C30: when the identity provider reports no account, acquireToken opens
\* the login popup and has not called acquireTokenSilent; when the popup
\* succeeds the silent acquisition follows, and when it fails acquireToken
\* fails with the interactive-login error built from the cause, still
\* without a silent acquisition, the cached token and expiry being what
\* they were.
C30_LoginBeforeSilent ==
    [][\A c \in Calls :
          /\ (/\ calls[c].pc = "msalInit"
              /\ calls'[c].pc \notin {"msalInit", "done"}
              /\ accounts = 0) =>
                /\ calls'[c].pc = "login"
                /\ Count(calls'[c], "loginPopup") = 1
                /\ Count(calls'[c], "acquireTokenSilent") = 0
          /\ (calls[c].pc = "login" /\ calls'[c].pc = "silent") =>
                /\ Count(calls[c], "acquireTokenSilent") = 0
                /\ Count(calls'[c], "acquireTokenSilent") = 1
          /\ (calls[c].pc = "login" /\ calls'[c].pc = "done") =>
                /\ calls'[c].outcome = "rejected"
                /\ calls'[c].caught.kind = "Error"
                /\ calls'[c].caught.message =
                      "Interactive login failed: " \o
                         (IF calls'[c].cause.kind = "Error"
                          THEN calls'[c].cause.message ELSE "Unknown error")
                /\ Count(calls'[c], "acquireTokenSilent") = 0
                /\ UNCHANGED <<cachedToken, tokenExpiryTime>>
          /\ (calls[c].pc = "login" /\ calls'[c] /= calls[c]) =>
                calls'[c].pc \in {"silent", "done"}]_vars

\* an acquireToken call made with no account failed at the login popup
C30_Witness ==
    \E c \in Calls :
       /\ Done(c) /\ calls[c].op = "acquireToken"
       /\ calls[c].outcome = "rejected"
       /\ calls[c].trace = <<"initialize", "getAllAccounts", "loginPopup">>
       /\ calls[c].cause = JsError("network")
       /\ calls[c].caught = JsError("Interactive login failed: network")
       /\ cachedToken = Null /\ tokenExpiryTime = NoDate

(* ------------------------- no conversation id -------------------------- *)
\* call c ended because startConversationAsync returned no conversation id
NoIdFailure(c) ==
    /\ Done(c) /\ calls[c].op = "sendMessage"
    /\ calls[c].caught = CommunicationError(NoConversationIdError)

Rank(name) ==
    CASE name \in IdpCallNames -> 1
      [] name = "new CopilotStudioClient" -> 2
      [] name = "startConversation" -> 3
      [] name = "askQuestion" -> 4
InOrder(trace) ==
    \A i \in 1..(Len(trace) - 1) : Rank(trace[i]) <= Rank(trace[i + 1])

\* C32: the provider calls of one sendMessage call come in the order
\* identity provider, transport-client construction, startConversation,
\* askQuestion, and only for a valid configuration; the transport client is
\* constructed, and the agent contacted, only after acquireToken returned a
\* token; with serialized calls the client a turn works with is the one
\* this call constructed with the token it was given.
C32_TurnOrder ==
    \A c \in Calls :
       calls[c].op = "sendMessage" =>
          /\ InOrder(calls[c].trace)
          /\ calls[c].trace /= <<>> => ConfigValid
          /\ CountIn(calls[c], TransportCallNames \cup {"new CopilotStudioClient"}) > 0 =>
                /\ Truthy(calls[c].accessToken)
                /\ Count(calls[c], "new CopilotStudioClient") = 1
          /\ calls[c].pc \in {"clientReady", "start", "ask"} =>
                /\ copilotClient.token = calls[c].accessToken
                /\ copilotClient.builtBy = c

\* a turn obtained a token, constructed the client with it, started a
\* conversation and is asking
C32_Witness ==
    \E c \in Calls :
       /\ calls[c].pc = "ask"
       /\ calls[c].trace = <<"initialize", "getAllAccounts", "acquireTokenSilent",
                             "new CopilotStudioClient", "startConversation",
                             "askQuestion">>
       /\ calls[c].accessToken = "token-1"
       /\ copilotClient.token = "token-1"

(* ------------------------ success envelope ids ------------------------- *)
\* C33: with serialized calls, the conversationId of a success envelope is
\* not empty, is the id this call passed to askQuestion, and is the id the
\* client holds when the call has returned (until a reset clears it).
C33_EnvelopeNamesConversation ==
    \A c \in Calls :
       Succeeded(c) =>
          /\ Truthy(calls[c].response.conversationId)
          /\ Count(calls[c], "askQuestion") = 1
          /\ calls[c].response.conversationId = calls[c].askedId
          /\ calls[c].response.metadata.conversationId = calls[c].askedId
          /\ ~hist.resetPending =>
                currentConversationId = calls[c].response.conversationId

\* the second turn asked for a fresh conversation while "conv-1" was held
\* and returned the envelope of the conversation it started
C33_Witness ==
    \E c \in Calls :
       /\ Succeeded(c)
       /\ calls[c].seq = 2
       /\ calls[c].heldAtBegin = "conv-1"
       /\ calls[c].response.conversationId = "conv-2"
       /\ calls[c].askedId = "conv-2"
       /\ currentConversationId = "conv-2"

(* ---------------------- success envelope metadata ---------------------- *)
\* the flags and counts of a success envelope other than hasText
FlagsMatchLists(c) ==
    LET meta == calls[c].response.metadata
    IN /\ meta.hasAdaptiveCards = (meta.adaptiveCards /= <<>>)
       /\ meta.hasSuggestedActions = (meta.suggestedActions /= <<>>)
       /\ meta.activitiesCount = Len(meta.fullActivities)
       /\ meta.fullActivities = calls[c].received

\* C34: in every success envelope hasText is true exactly when the message
\* text is not empty, hasAdaptiveCards exactly when adaptiveCards is not
\* empty, hasSuggestedActions exactly when suggestedActions is not empty,
\* and activitiesCount is the length of the retained activities, which are
\* the activities received, of every type, in the order of receipt.
C34_MetadataConsistent ==
    \A c \in Calls :
       Succeeded(c) =>
          /\ calls[c].response.metadata.hasText = (calls[c].response.message /= "")
          /\ FlagsMatchLists(c)

\* what the code keeps of C34: every part but hasText, and hasText is true
\* exactly when the joined text of the reply is not empty
MetadataConsistentButPlaceholder ==
    \A c \in Calls :
       Succeeded(c) =>
          /\ FlagsMatchLists(c)
          /\ calls[c].response.metadata.hasText =>
                calls[c].response.message /= ""
          /\ ~calls[c].response.metadata.hasText =>
                calls[c].response.message \in {"", "No response from agent"}

(* --------------------- the cache and failed calls ---------------------- *)
\* C35: the cached token and expiry change only in the step in which the
\* identity provider hands a token to an acquireToken call, and become that
\* token and its expiry; an acquireToken call that has failed finds the
\* cache as it was when the call began, a token that was expired then being
\* still held and still not valid.
C35_FailureKeepsCache ==
    [][/\ (cachedToken' /= cachedToken \/ tokenExpiryTime' /= tokenExpiryTime) =>
             \E c \in Calls :
                /\ ObtainsToken(c)
                /\ cachedToken' = calls'[c].authResult.accessToken
                /\ tokenExpiryTime' = calls'[c].authResult.expiresOn
       /\ \A c \in Calls :
             (calls'[c].pc = "done" /\ calls'[c].outcome = "rejected") =>
                /\ cachedToken' = calls'[c].cachedAtAcquire
                /\ calls'[c].authResult = NoAuthResult
                /\ calls'[c].heldAtAcquire \in {"expired", "noExpiry"} =>
                      /\ getTokenInfo'.hasToken
                      /\ ~getTokenInfo'.isValid]_vars

\* an acquireToken call that found an expired token failed at the popup;
\* the expired token is still cached
C35_Witness ==
    \E c \in Calls :
       /\ Done(c) /\ calls[c].op = "acquireToken"
       /\ calls[c].outcome = "rejected"
       /\ calls[c].heldAtAcquire = "expired"
       /\ Count(calls[c], "loginPopup") = 1
       /\ cachedToken = calls[c].cachedAtAcquire
       /\ cachedToken /= Null
       /\ getTokenInfo.hasToken /\ ~getTokenInfo.isValid

(* ------------------------------- popups -------------------------------- *)
\* C36: no acquireToken call invokes loginPopup more than once.
C36_AtMostOnePopup ==
    \A c \in Calls : Count(calls[c], "loginPopup") <= 1

\* C37: an acquireToken call has handed at most one status to the listener,
\* so never two for one failure.
C37_AtMostOneEvent ==
    \A c \in Calls : Len(calls[c].events) <= 1

\* ---------------------------------------------------------------------
\* The AgentInterface component (src/components/AgentInterface.tsx) with
\* the message form (MessageInterface.tsx) and the response panel
\* (ResponseDisplay).  The component holds AgentClient objects and awaits
\* their sendMessage; here a client is named by the order of its
\* construction and its sendMessage is a pending promise that later
\* resolves with an envelope or rejects.
\* ---------------------------------------------------------------------

\* Clients the component constructs in one run.
MaxClients == 2

\* validateConfiguration (lines 515-530): the four fields, trimmed, are
\* non-empty.
validateConfiguration(cfg) ==
    LET missingFields ==
            Push(trim(cfg.clientId) = "", "Client ID")
         \o Push(trim(cfg.tenantId) = "", "Tenant ID")
         \o Push(trim(cfg.botIdentifier) = "", "Bot Identifier")
         \o Push(trim(cfg.environmentId) = "", "Environment ID")
    IN [isValid |-> Len(missingFields) = 0, missingFields |-> missingFields]

\* What the component reads of an envelope sendMessage resolved with: its
\* success flag and whether the response panel renders a clickable action
\* for it (a suggested action or a card's submit action).
UiResults == {[success |-> TRUE, actions |-> TRUE],
              [success |-> TRUE, actions |-> FALSE],
              [success |-> FALSE, actions |-> FALSE]}

WithoutSend(sends, i) == SubSeq(sends, 1, i - 1) \o SubSeq(sends, i + 1, Len(sends))

\* handleConfigChange (lines 568-580), called by the configuration form
\* with a configuration the form accepted: the configuration is stored, a
\* new client is constructed for it and the history is cleared.
handleConfigChange(newConfig) ==
    /\ ui.clients < MaxClients
    /\ ui' = [ui EXCEPT !.config = newConfig,
                        !.error = FALSE,
                        !.showErrorPopup = FALSE,
                        !.clients = @ + 1,
                        !.agentClient = ui.clients + 1,
                        !.conversationHistory = <<>>]
    /\ UNCHANGED <<config, msalInstance, pcfConfig, cachedToken, tokenExpiryTime,
                   authStatusCallback, copilotClient, currentConversationId,
                   accounts, now, calls, opsBegun, hist>>

\* handleSendMessage (lines 593-634) up to its await: an invalid
\* configuration shows the error popup and nothing is sent; otherwise the
\* loading flag is set and sendMessage is called on the client of the
\* current render (one is constructed when there is none).  The handler
\* does not read the loading flag.
handleSendMessage(messageText) ==
    /\ opsBegun < MaxOps
    /\ IF ~validateConfiguration(ui.config).isValid
       THEN /\ ui' = [ui EXCEPT !.showErrorPopup = TRUE]
            /\ UNCHANGED opsBegun
       ELSE LET currentClient == IF ui.agentClient = 0 THEN ui.clients + 1
                                 ELSE ui.agentClient
            IN /\ ui' = [ui EXCEPT
                    !.loading = TRUE,
                    !.error = FALSE,
                    !.showErrorPopup = FALSE,
                    !.clients = IF ui.agentClient = 0 THEN @ + 1 ELSE @,
                    !.agentClient = currentClient,
                    !.sends = Append(@, [client |-> currentClient,
                                         message |-> messageText])]
               /\ opsBegun' = opsBegun + 1
    /\ UNCHANGED <<config, msalInstance, pcfConfig, cachedToken, tokenExpiryTime,
                   authStatusCallback, copilotClient, currentConversationId,
                   accounts, now, calls, hist>>

\* The message form's handleSubmit (MessageInterface.tsx lines 164-170):
\* the non-blank message is handed to handleSendMessage unless the form is
\* disabled, and the form is disabled while loading.
handleSubmit(messageText) ==
    /\ Truthy(trim(messageText))
    /\ ~ui.loading
    /\ handleSendMessage(messageText)

\* A click on a suggested action or on a card's submit action of the
\* response shown (ResponseDisplay lines 313-317, 366-373, 394-401;
\* AgentInterface.tsx lines 640-642, 714-717): the action's text is handed
\* to handleSendMessage.  The panel and its buttons have no disabled state.
handleSuggestedAction(action) ==
    /\ ui.response.actions
    /\ handleSendMessage(action)

\* handleSendMessage after its await, sendMessage having resolved with
\* result (lines 609-623, 629-631): the response shown is replaced, the
\* exchange is appended to the history as it is then, loading is cleared.
SendMessageResolves(i, result) ==
    /\ i \in DOMAIN ui.sends
    /\ ui' = [ui EXCEPT
            !.response = [client |-> ui.sends[i].client,
                          success |-> result.success,
                          actions |-> result.actions],
            !.conversationHistory =
                Append(@, [message |-> ui.sends[i].message,
                           client |-> ui.sends[i].client]),
            !.loading = FALSE,
            !.sends = WithoutSend(@, i)]
    /\ UNCHANGED <<config, msalInstance, pcfConfig, cachedToken, tokenExpiryTime,
                   authStatusCallback, copilotClient, currentConversationId,
                   accounts, now, calls, opsBegun, hist>>

\* handleSendMessage after its await, sendMessage having rejected (lines
\* 624-631): the error is shown, loading is cleared.
SendMessageRejects(i) ==
    /\ i \in DOMAIN ui.sends
    /\ ui' = [ui EXCEPT !.error = TRUE,
                        !.loading = FALSE,
                        !.sends = WithoutSend(@, i)]
    /\ UNCHANGED <<config, msalInstance, pcfConfig, cachedToken, tokenExpiryTime,
                   authStatusCallback, copilotClient, currentConversationId,
                   accounts, now, calls, opsBegun, hist>>

\* The component as mounted; no client exists yet.
InitUI ==
    /\ Init
    /\ config = EmptyConfig
    /\ accounts = 0

NextUI ==
    \/ \E newConfig \in ValidConfigs : handleConfigChange(newConfig)
    \/ handleSubmit("hello")
    \/ handleSuggestedAction("Yes")
    \/ \E i \in 1..MaxOps, result \in UiResults : SendMessageResolves(i, result)
    \/ \E i \in 1..MaxOps : SendMessageRejects(i)

SpecUI == InitUI /\ [][NextUI]_vars

\* Sends in flight on one client.
InFlightOn(client) == {i \in DOMAIN ui.sends : ui.sends[i].client = client}

\* C38: the component never has two sendMessage calls in flight on the
\* same client, whether a turn is started from the message form or by a
\* click on a suggested action or card action while a turn is loading.
C38_TurnsSerialized ==
    \A client \in 1..MaxClients : Cardinality(InFlightOn(client)) <= 1

\* C39: every exchange in the history was answered by the client the
\* component holds: a configuration change constructs a new client and
\* clears the history, and no exchange of an earlier client enters the
\* history afterwards, a send in flight on the earlier client included.
C39_HistoryOfCurrentClient ==
    \A k \in DOMAIN ui.conversationHistory :
        ui.conversationHistory[k].client = ui.agentClient

\* The step that replaces the client is the one that clears the history,
\* and the client it installs has not been used before.
ConfigChangeClearsHistory ==
    [][ui'.agentClient /= ui.agentClient =>
          /\ ui'.conversationHistory = <<>>
          /\ ui'.agentClient = ui.clients + 1
          /\ \A i \in DOMAIN ui'.sends : ui'.sends[i].client /= ui'.agentClient]_vars

\* A finished sendMessage call whose failure is the authenticator's
\* not-initialized error.
EndsNotInitialized(c) ==
    /\ Done(c) /\ calls[c].op = "sendMessage"
    /\ \/ calls[c].caught.message = NotInitializedError.message
       \/ calls[c].response.message = "API Error: " \o NotInitializedError.message

UninitializedClientAnswers ==
    /\ ~validateInitialization
    /\ \E c \in Calls : Failed(c) /\ calls[c].op = "sendMessage"
====
